---- MODULE Spec2Model ----
(***************************************************************************)
(* Cooperative Node Trust Simulator (src/app.py): the module-level state   *)
(* (topology G, roles, trust_scores, energy, packet counters), the         *)
(* functions update_trust_energy and simulate_step, the suspicious-node    *)
(* comprehension and the 50-iteration run loop.                            *)
(*                                                                         *)
(* Number representation.  trust is kept in hundredths (1.0 is 100, the    *)
(* reward 0.05 is 5, the penalty 0.1 is 10, the threshold 0.4 is 40) and   *)
(* energy in tenths (100.0 is 1000, a draw of random.uniform(0.5, 2.0) is  *)
(* a number of tenths between 5 and 20).  The arithmetic is exact decimal  *)
(* arithmetic: the rounding of Python's binary floats is not modelled.     *)
(*                                                                         *)
(* Randomness.  Every random.* call is a nondeterministic choice over the  *)
(* values the call can return.                                             *)
(***************************************************************************)
EXTENDS Integers, FiniteSets, Sequences, TLC

\* ------------------------------------------------------------------ bounds
\* Number of nodes of the run (the sidebar slider num_nodes, scaled down).
NumNodes == 2
\* Number of loop iterations explored from the start of a run, under Spec.
MaxSteps == 3
\* Number of loop iterations explored up to the end of a run, under SpecLate.
LateSteps == 2

\* --------------------------------------------------------- program constants
RunSteps == 50
TrustMax == 100
TrustMin == 0
TrustReward == 5
TrustPenalty == 10
Threshold == 40
EnergyMax == 1000
EnergyMin == 0
DrawLow == 5
DrawHigh == 20

VARIABLES G, roles, trust_scores, energy, packets_sent, packets_received,
          packets_dropped, run_sim, step, result, detected, pc

vars == <<G, roles, trust_scores, energy, packets_sent, packets_received,
          packets_dropped, run_sim, step, result, detected, pc>>

\* ------------------------------------------------------------------ helpers
Min(a, b) == IF a <= b THEN a ELSE b
Max(a, b) == IF a >= b THEN a ELSE b

\* G.nodes of erdos_renyi_graph(num_nodes, 0.4): the integers 0 .. n-1.
Nodes == 0 .. (NumNodes - 1)

\* The edges erdos_renyi_graph can produce: each unordered pair of distinct
\* nodes is present or absent independently, so every simple graph is possible.
Pairs == {e \in SUBSET Nodes : Cardinality(e) = 2}
Graphs == SUBSET Pairs

\* list(G.neighbors(sender))
Neighbors(g, n) == {m \in Nodes : {n, m} \in g}

\* random.choice(["Honest", "Selfish", "Malicious"])
Roles == {"Honest", "Selfish", "Malicious"}

\* Draws of random.uniform(0.5, 2.5): the upper end too high.
EnergyDraws_wide == {DrawLow, DrawHigh + 5}

\* The values random.uniform(0.5, 2.0) is drawn from in the model: the two
\* ends of the interval, in tenths.
EnergyDraws == {DrawLow, DrawHigh}

\* Lines 55-60 with the Honest branch missing: every role can fail.
Outcomes_any_role(behavior) == BOOLEAN

\* The success values lines 55-60 can produce for a role: an Honest sender
\* always succeeds; random.random() > 0.4 and random.random() > 0.8 can each
\* be true or false.
Outcomes(behavior) == IF behavior = "Honest" THEN {TRUE} ELSE BOOLEAN

\* Python's None, the value of simulate_step's bare return.
None == <<>>
\* A name of the module that no statement has assigned yet.
ResultUnassigned == <<-1>>
DetectedUnassigned == {-1}

\* The mutable dictionaries of the module, as one record.
Mem == [trust_scores |-> trust_scores, energy |-> energy,
        packets_sent |-> packets_sent, packets_received |-> packets_received,
        packets_dropped |-> packets_dropped]

\* Lines 30-36: the dictionaries after the initialization loop.
FreshMem == [trust_scores |-> [n \in Nodes |-> TrustMax],
             energy |-> [n \in Nodes |-> EnergyMax],
             packets_sent |-> [n \in Nodes |-> 0],
             packets_received |-> [n \in Nodes |-> 0],
             packets_dropped |-> [n \in Nodes |-> 0]]

\* ------------------------------------------------------- faulty variants
\* Variants of the operators below with one plausible fault each; the
\* properties at the end of the module are required to tell them apart from
\* the operators they vary.
\* update_trust_energy without the floor on trust: max(0.0, ...) dropped.
update_trust_energy_no_floor(m, sender, success, draw) ==
    [m EXCEPT !.trust_scores[sender] =
                  IF success THEN Min(TrustMax, @ + TrustReward)
                             ELSE @ - TrustPenalty,
              !.energy[sender] = Max(EnergyMin, @ - draw)]

\* update_trust_energy with the penalty of a failure equal to the reward.
update_trust_energy_symmetric(m, sender, success, draw) ==
    [m EXCEPT !.trust_scores[sender] =
                  IF success THEN Min(TrustMax, @ + TrustReward)
                             ELSE Max(TrustMin, @ - TrustReward),
              !.energy[sender] = Max(EnergyMin, @ - draw)]

\* update_trust_energy charging energy only for a successful attempt.
update_trust_energy_free_failure(m, sender, success, draw) ==
    [m EXCEPT !.trust_scores[sender] =
                  IF success THEN Min(TrustMax, @ + TrustReward)
                             ELSE Max(TrustMin, @ - TrustPenalty),
              !.energy[sender] = IF success THEN Max(EnergyMin, @ - draw)
                                            ELSE @]

\* update_trust_energy that does not reward a successful attempt.
update_trust_energy_no_reward(m, sender, success, draw) ==
    [m EXCEPT !.trust_scores[sender] =
                  IF success THEN @
                             ELSE Max(TrustMin, @ - TrustPenalty),
              !.energy[sender] = Max(EnergyMin, @ - draw)]

\* update_trust_energy with a penalty of 0.2 for a failure.
update_trust_energy_double_penalty(m, sender, success, draw) ==
    [m EXCEPT !.trust_scores[sender] =
                  IF success THEN Min(TrustMax, @ + TrustReward)
                             ELSE Max(TrustMin, @ - 2 * TrustPenalty),
              !.energy[sender] = Max(EnergyMin, @ - draw)]

\* The comprehension of lines 112 and 167 with t <= 0.4.
Suspicious_inclusive(ts) == {n \in Nodes : ts[n] <= Threshold}

\* ------------------------------------------------------- update_trust_energy
\* Lines 40-45, on the dictionaries m; draw is the value of random.uniform.
update_trust_energy(m, sender, success, draw) ==
    [m EXCEPT !.trust_scores[sender] =
                  IF success THEN Min(TrustMax, @ + TrustReward)
                             ELSE Max(TrustMin, @ - TrustPenalty),
              !.energy[sender] = Max(EnergyMin, @ - draw)]

\* simulate_step that does not count a failed attempt as dropped.
simulate_step_drop_uncounted(m, sender, receiver, success, draw) ==
    LET sent == [m EXCEPT !.packets_sent[sender] = @ + 1]
        counted == IF success
                   THEN [sent EXCEPT !.packets_received[receiver] = @ + 1]
                   ELSE sent
    IN  update_trust_energy(counted, sender, success, draw)

\* simulate_step that credits a delivered packet to the sender.
simulate_step_credits_sender(m, sender, receiver, success, draw) ==
    LET sent == [m EXCEPT !.packets_sent[sender] = @ + 1]
        counted == IF success
                   THEN [sent EXCEPT !.packets_received[sender] = @ + 1]
                   ELSE [sent EXCEPT !.packets_dropped[sender] = @ + 1]
    IN  update_trust_energy(counted, sender, success, draw)

\* simulate_step that passes the receiver to update_trust_energy.
simulate_step_updates_receiver(m, sender, receiver, success, draw) ==
    LET sent == [m EXCEPT !.packets_sent[sender] = @ + 1]
        counted == IF success
                   THEN [sent EXCEPT !.packets_received[receiver] = @ + 1]
                   ELSE [sent EXCEPT !.packets_dropped[sender] = @ + 1]
    IN  update_trust_energy(counted, receiver, success, draw)

\* simulate_step that takes a failed attempt back from packets_sent.
simulate_step_uncounts(m, sender, receiver, success, draw) ==
    LET counted == IF success
                   THEN [m EXCEPT !.packets_sent[sender] = @ + 1,
                                  !.packets_received[receiver] = @ + 1]
                   ELSE [m EXCEPT !.packets_sent[sender] = @ - 1,
                                  !.packets_dropped[sender] = @ + 1]
    IN  update_trust_energy(counted, sender, success, draw)

\* ------------------------------------------------------------- simulate_step
\* Lines 62-68: the counters, then update_trust_energy, for a sender that has
\* neighbors; receiver, success and draw are the random choices made.
simulate_step(m, sender, receiver, success, draw) ==
    LET sent == [m EXCEPT !.packets_sent[sender] = @ + 1]
        counted == IF success
                   THEN [sent EXCEPT !.packets_received[receiver] = @ + 1]
                   ELSE [sent EXCEPT !.packets_dropped[sender] = @ + 1]
    IN  update_trust_energy(counted, sender, success, draw)

\* Lines 112 and 167: [n for n, t in trust_scores.items() if t < 0.4]
Suspicious(ts) == {n \in Nodes : ts[n] < Threshold}

\* --------------------------------------------------------------------- Init
\* The state at line 124, after lines 17-38: a random topology, random roles,
\* full trust and energy, zero counters; run_sim is the button's value.
Init ==
    /\ G \in Graphs
    /\ roles \in [Nodes -> Roles]
    /\ trust_scores = FreshMem.trust_scores
    /\ energy = FreshMem.energy
    /\ packets_sent = FreshMem.packets_sent
    /\ packets_received = FreshMem.packets_received
    /\ packets_dropped = FreshMem.packets_dropped
    /\ run_sim \in BOOLEAN
    /\ step = 0
    /\ result = ResultUnassigned
    /\ detected = DetectedUnassigned
    /\ pc = "main"

\* ------------------------------------------------------------------ actions
\* Line 124, run_sim true: enter the loop of line 126.
StartSimulation ==
    /\ pc = "main"
    /\ run_sim
    /\ pc' = "loop"
    /\ UNCHANGED <<G, roles, trust_scores, energy, packets_sent,
                   packets_received, packets_dropped, run_sim, step, result,
                   detected>>

\* Lines 182-183, run_sim false: the script shows its hint and ends.
ShowHint ==
    /\ pc = "main"
    /\ ~run_sim
    /\ pc' = "done"
    /\ UNCHANGED <<G, roles, trust_scores, energy, packets_sent,
                   packets_received, packets_dropped, run_sim, step, result,
                   detected>>

\* An outcome iteration that draws the receiver among all nodes.
StepOutcome_any_receiver(sender, receiver, success, draw) ==
    /\ pc = "loop"
    /\ step < RunSteps
    /\ Neighbors(G, sender) # {}
    /\ success \in Outcomes(roles[sender])
    /\ LET m == simulate_step(Mem, sender, receiver, success, draw)
       IN  /\ trust_scores' = m.trust_scores
           /\ energy' = m.energy
           /\ packets_sent' = m.packets_sent
           /\ packets_received' = m.packets_received
           /\ packets_dropped' = m.packets_dropped
           /\ detected' = Suspicious(m.trust_scores)
    /\ result' = <<sender, receiver, success>>
    /\ step' = step + 1
    /\ UNCHANGED <<G, roles, run_sim, pc>>

\* A no-neighbor iteration that counts the attempt as sent.
StepNoNeighbors_counts(sender) ==
    /\ pc = "loop"
    /\ step < RunSteps
    /\ Neighbors(G, sender) = {}
    /\ result' = None
    /\ step' = step + 1
    /\ packets_sent' = [packets_sent EXCEPT ![sender] = @ + 1]
    /\ UNCHANGED <<G, roles, trust_scores, energy, packets_received,
                   packets_dropped, run_sim, detected, pc>>

\* An outcome iteration that relabels a sender whose attempt failed.
StepOutcome_relabels(sender, receiver, success, draw) ==
    /\ pc = "loop"
    /\ step < RunSteps
    /\ receiver \in Neighbors(G, sender)
    /\ success \in Outcomes(roles[sender])
    /\ LET m == simulate_step(Mem, sender, receiver, success, draw)
       IN  /\ trust_scores' = m.trust_scores
           /\ energy' = m.energy
           /\ packets_sent' = m.packets_sent
           /\ packets_received' = m.packets_received
           /\ packets_dropped' = m.packets_dropped
           /\ detected' = Suspicious(m.trust_scores)
    /\ roles' = IF success THEN roles
                ELSE [roles EXCEPT ![sender] = "Malicious"]
    /\ result' = <<sender, receiver, success>>
    /\ step' = step + 1
    /\ UNCHANGED <<G, run_sim, pc>>

\* One loop iteration whose simulate_step draws a sender without neighbors
\* (lines 48-51): it returns None and the loop continues (lines 128-129).
StepNoNeighbors(sender) ==
    /\ pc = "loop"
    /\ step < RunSteps
    /\ Neighbors(G, sender) = {}
    /\ result' = None
    /\ step' = step + 1
    /\ UNCHANGED <<G, roles, trust_scores, energy, packets_sent,
                   packets_received, packets_dropped, run_sim, detected, pc>>

\* One loop iteration whose simulate_step produces an outcome (lines 48-69),
\* followed by the refresh of the display (lines 130-171), which assigns
\* detected.
StepOutcome(sender, receiver, success, draw) ==
    /\ pc = "loop"
    /\ step < RunSteps
    /\ receiver \in Neighbors(G, sender)
    /\ success \in Outcomes(roles[sender])
    /\ LET m == simulate_step(Mem, sender, receiver, success, draw)
       IN  /\ trust_scores' = m.trust_scores
           /\ energy' = m.energy
           /\ packets_sent' = m.packets_sent
           /\ packets_received' = m.packets_received
           /\ packets_dropped' = m.packets_dropped
           /\ detected' = Suspicious(m.trust_scores)
    /\ result' = <<sender, receiver, success>>
    /\ step' = step + 1
    /\ UNCHANGED <<G, roles, run_sim, pc>>

\* Line 126: one iteration of for step in range(50); the sender, receiver,
\* success and draw are those simulate_step's random calls produce.
NoNeighborsIteration == \E sender \in Nodes : StepNoNeighbors(sender)

OutcomeIteration ==
    \E sender \in Nodes, receiver \in Nodes, success \in BOOLEAN,
       draw \in EnergyDraws :
        StepOutcome(sender, receiver, success, draw)

\* The loop of line 126 ending one iteration early: range(49).
LoopExit_early ==
    /\ pc = "loop"
    /\ step = RunSteps - 1
    /\ pc' = "done"
    /\ UNCHANGED <<G, roles, trust_scores, energy, packets_sent,
                   packets_received, packets_dropped, run_sim, step, result,
                   detected>>

\* Line 175: the loop is exhausted.
LoopExit ==
    /\ pc = "loop"
    /\ step = RunSteps
    /\ pc' = "done"
    /\ UNCHANGED <<G, roles, trust_scores, energy, packets_sent,
                   packets_received, packets_dropped, run_sim, step, result,
                   detected>>

\* The iterations explored from the start of a run.
EarlyNoNeighbors ==
    /\ step < MaxSteps
    /\ NoNeighborsIteration

EarlyOutcome ==
    /\ step < MaxSteps
    /\ OutcomeIteration

\* The run from construction, explored for its first MaxSteps iterations.
Next ==
    \/ StartSimulation
    \/ ShowHint
    \/ EarlyNoNeighbors
    \/ EarlyOutcome

Spec == Init /\ [][Next]_vars

\* ------------------------------------------------------- the end of the run
\* k successive calls of simulate_step with the same choices.  Each call's
\* result is compared with its argument before the next call is made: a call
\* that changed nothing would change nothing when repeated.
RECURSIVE Replay(_, _, _, _, _, _)
Replay(m, k, sender, receiver, success, draw) ==
    IF k = 0 THEN m
    ELSE LET n == simulate_step(m, sender, receiver, success, draw)
         IN  IF n = m THEN m
             ELSE Replay(n, k - 1, sender, receiver, success, draw)

\* Number of iterations a run has completed when SpecLate takes it up.
LateStart == RunSteps - LateSteps

\* How many of those iterations were failed attempts: none for an Honest
\* sender; for the others enough to stand one failure above the threshold
\* (trust 0.5) or above the floor (trust 0.1).
LateDrops(behavior) == IF behavior = "Honest" THEN {0} ELSE {0, 5, 9}

\* A state the run reaches after LateStart iterations in which node 0 was the
\* sender and its neighbor node 1 the receiver every time, every draw was 2.0,
\* and the last d attempts failed.  The dictionaries are those simulate_step
\* produces along that run.
LateInitOutcomes ==
    /\ G \in Graphs
    /\ 1 \in Neighbors(G, 0)
    /\ roles \in [Nodes -> Roles]
    /\ \E d \in LateDrops(roles[0]) :
         LET m == Replay(Replay(FreshMem, LateStart - d, 0, 1, TRUE, DrawHigh),
                         d, 0, 1, FALSE, DrawHigh)
         IN  /\ trust_scores = m.trust_scores
             /\ energy = m.energy
             /\ packets_sent = m.packets_sent
             /\ packets_received = m.packets_received
             /\ packets_dropped = m.packets_dropped
             /\ detected = Suspicious(m.trust_scores)
             /\ result = <<0, 1, d = 0>>
    /\ run_sim = TRUE
    /\ step = LateStart
    /\ pc = "loop"

\* A state the run reaches after LateStart iterations in which node 0, which
\* has no neighbors, was the sender every time: every iteration was a no-op.
LateInitNoOps ==
    /\ G \in Graphs
    /\ Neighbors(G, 0) = {}
    /\ roles \in [Nodes -> Roles]
    /\ trust_scores = FreshMem.trust_scores
    /\ energy = FreshMem.energy
    /\ packets_sent = FreshMem.packets_sent
    /\ packets_received = FreshMem.packets_received
    /\ packets_dropped = FreshMem.packets_dropped
    /\ detected = DetectedUnassigned
    /\ result = None
    /\ run_sim = TRUE
    /\ step = LateStart
    /\ pc = "loop"

LateInit == LateInitOutcomes \/ LateInitNoOps

\* The last LateSteps iterations of a run and the end of the loop.
NextLate ==
    \/ NoNeighborsIteration
    \/ OutcomeIteration
    \/ LoopExit

SpecLate == LateInit /\ [][NextLate]_vars

\* The end of the run with the progress the script has: it is one sequential
\* thread, every call of an iteration returns (time.sleep(speed) with
\* speed <= 2.0 included), so an iteration or the exit that is possible is
\* eventually taken.
SpecLateFair == SpecLate /\ WF_vars(NextLate)

\* ================================================================== claims
RECURSIVE SumOver(_, _)
\* sum(d.values()) over the nodes of S.
SumOver(d, S) ==
    IF S = {} THEN 0
    ELSE LET n == CHOOSE x \in S : TRUE
         IN  d[n] + SumOver(d, S \ {n})

Total(d) == SumOver(d, Nodes)

\* The iteration just taken produced an outcome (sender, receiver, success).
OutcomeStep == step' = step + 1 /\ Len(result') = 3

\* C1: every node's trust is in [0.0, 1.0] and every node's energy is in
\* [0.0, 100.0], with the values of the initial state and after any number
\* of simulate_step calls.
C1_RangeInvariant ==
    \A n \in Nodes :
        /\ 0 <= trust_scores[n] /\ trust_scores[n] <= 100
        /\ 0 <= energy[n] /\ energy[n] <= 1000

\* C1 witness: a node that failed more often than its trust could pay for
\* (eleven failures, trust at the floor) and that has used up its energy.
C1_Witness ==
    \E n \in Nodes :
        /\ packets_dropped[n] >= 11
        /\ trust_scores[n] = 0
        /\ energy[n] = 0

\* C2: conservation: the packets received plus the packets dropped, summed
\* over the nodes, equal the packets sent, after any number of completed
\* iterations (no-op iterations included).
C2_Conservation ==
    Total(packets_received) + Total(packets_dropped) = Total(packets_sent)

\* C2 witness: three packets sent, of which at least one was received and at
\* least one was dropped.
C2_Witness ==
    /\ Total(packets_sent) = 3
    /\ Total(packets_received) >= 1
    /\ Total(packets_dropped) >= 1

\* C3: once displayed, the detected list is exactly the set of nodes whose
\* current trust is strictly below 0.4: a node with trust exactly 0.4 is not
\* in it and every node with trust below 0.4 is.
C3_DetectedExact ==
    detected # DetectedUnassigned =>
        \A n \in Nodes :
            /\ trust_scores[n] < 40 => n \in detected
            /\ trust_scores[n] >= 40 => n \notin detected

\* C3 witness: after an outcome, a node with trust exactly 0.4 that is not
\* detected.
C3_Witness ==
    /\ detected # DetectedUnassigned
    /\ \E n \in Nodes : trust_scores[n] = 40 /\ n \notin detected

\* C4: an outcome-producing iteration with sender s and trust t before it
\* leaves trust[s] = min(1.0, t + 0.05) after a success and
\* trust[s] = max(0.0, t - 0.10) after a failure.
C4_TrustUpdate ==
    [][OutcomeStep =>
         LET s == result'[1]
             t == trust_scores[s]
         IN  trust_scores'[s] =
                 IF result'[3]
                 THEN (IF t + 5 > 100 THEN 100 ELSE t + 5)
                 ELSE (IF t - 10 < 0 THEN 0 ELSE t - 10)]_vars

\* C4 witness: a failed attempt of a sender whose trust was already at the
\* floor (eleven failures), so that the floor decided the new value.
C4_Witness ==
    /\ Len(result) = 3
    /\ ~result[3]
    /\ trust_scores[result[1]] = 0
    /\ packets_dropped[result[1]] >= 11

\* C5: an iteration whose sender has no neighbors yields no outcome and
\* leaves the roles, trust, energy and the three counters of every node
\* unchanged; the sender of an outcome always has neighbors; and in a
\* topology without edges every iteration is such a no-op, so that all
\* counters stay 0.
C5_NoNeighborSafety ==
    [][step' = step + 1 =>
         /\ result' = None =>
                UNCHANGED <<roles, trust_scores, energy, packets_sent,
                            packets_received, packets_dropped>>
         /\ Len(result') = 3 => Neighbors(G, result'[1]) # {}
         /\ G = {} =>
                /\ result' = None
                /\ \A n \in Nodes :
                       /\ packets_sent'[n] = 0
                       /\ packets_received'[n] = 0
                       /\ packets_dropped'[n] = 0]_vars

\* C5 witness: a topology without edges after three no-op iterations.
C5_Witness ==
    /\ G = {}
    /\ step = 3
    /\ result = None

\* C6: an outcome-producing iteration with sender s and receiver r adds 1 to
\* packets_sent[s] and 1 to exactly one other counter, packets_received[r]
\* after a success and packets_dropped[s] after a failure; no other counter
\* of any node changes.
C6_CounterUpdate ==
    [][OutcomeStep =>
         LET s == result'[1]
             r == result'[2]
         IN  /\ packets_sent' = [packets_sent EXCEPT ![s] = @ + 1]
             /\ IF result'[3]
                THEN /\ packets_received' =
                            [packets_received EXCEPT ![r] = @ + 1]
                     /\ packets_dropped' = packets_dropped
                ELSE /\ packets_dropped' =
                            [packets_dropped EXCEPT ![s] = @ + 1]
                     /\ packets_received' = packets_received]_vars

\* C6 witness: a failed attempt in a run that has also delivered a packet.
C6_Witness ==
    /\ Len(result) = 3
    /\ ~result[3]
    /\ packets_dropped[result[1]] >= 1
    /\ Total(packets_received) >= 1

\* C7: a node's trust and energy change only in an iteration of which that
\* node is the sender: every other node, the receiver included, keeps both.
C7_OnlySenderChanges ==
    [][\A n \in Nodes :
          (trust_scores'[n] # trust_scores[n] \/ energy'[n] # energy[n]) =>
              /\ OutcomeStep
              /\ result'[1] = n]_vars

\* C7 witness: a node that has received packets and sent none still has its
\* initial trust and energy, while the sender's energy has gone down.
C7_Witness ==
    /\ Len(result) = 3
    /\ packets_received[result[2]] >= 2
    /\ packets_sent[result[2]] = 0
    /\ trust_scores[result[2]] = 100
    /\ energy[result[2]] = 1000
    /\ energy[result[1]] < 1000

\* C8: the role of each node is one of Honest, Selfish, Malicious and no
\* iteration changes it.
C8_RoleImmutable ==
    [][/\ \A n \in Nodes : roles[n] \in {"Honest", "Selfish", "Malicious"}
       /\ roles' = roles]_vars

\* C8 witness: a Selfish and a Malicious node, both of which have failed an
\* attempt, after three iterations.
C8_Witness ==
    /\ step = 3
    /\ \E a \in Nodes, b \in Nodes :
          /\ roles[a] = "Selfish" /\ packets_dropped[a] >= 1
          /\ roles[b] = "Malicious" /\ packets_dropped[b] >= 1

\* C9: packets_sent, packets_received and packets_dropped start at 0, are
\* never negative and never decrease from one iteration to the next.
C9_CountersMonotone ==
    /\ \A n \in Nodes :
          packets_sent[n] = 0 /\ packets_received[n] = 0
              /\ packets_dropped[n] = 0
    /\ [][\A n \in Nodes :
             /\ packets_sent'[n] >= packets_sent[n] /\ packets_sent[n] >= 0
             /\ packets_received'[n] >= packets_received[n]
             /\ packets_received[n] >= 0
             /\ packets_dropped'[n] >= packets_dropped[n]
             /\ packets_dropped[n] >= 0
             /\ packets_sent'[n] >= 0 /\ packets_received'[n] >= 0
             /\ packets_dropped'[n] >= 0]_vars

\* C9 witness: a node that has sent, received and dropped packets.
C9_Witness ==
    \E n \in Nodes :
        /\ packets_sent[n] >= 2
        /\ packets_received[n] >= 1
        /\ packets_dropped[n] >= 1

\* C10: no node's energy increases in any iteration, and an outcome-producing
\* iteration lowers the sender's energy by a draw between 0.5 and 2.0,
\* floored at 0.0, after a success and after a failure alike.
C10_EnergyDrain ==
    [][/\ \A n \in Nodes : energy'[n] <= energy[n]
       /\ OutcomeStep =>
              LET s == result'[1]
              IN  \E d \in 5 .. 20 :
                      energy'[s] = (IF energy[s] - d < 0 THEN 0
                                    ELSE energy[s] - d)]_vars

\* C10 witness: a sender whose last attempt failed and whose energy the
\* fifty attempts of the run have brought down to 0.0.
C10_Witness ==
    /\ Len(result) = 3
    /\ ~result[3]
    /\ packets_sent[result[1]] = 50
    /\ energy[result[1]] = 0

\* C11: monotonic trust response: a success leaves the sender's trust
\* strictly greater than before or equal to 1.0, a failure leaves it strictly
\* smaller than before or equal to 0.0, and the trust of the nodes that are
\* not the sender of the iteration stays as it was.
C11_MonotonicTrust ==
    [][OutcomeStep =>
         LET s == result'[1]
         IN  /\ result'[3] =>
                    (trust_scores'[s] > trust_scores[s]
                         \/ trust_scores'[s] = 100)
             /\ ~result'[3] =>
                    (trust_scores'[s] < trust_scores[s]
                         \/ trust_scores'[s] = 0)
             /\ \A n \in Nodes \ {s} :
                    trust_scores'[n] = trust_scores[n]]_vars

\* C11 witness: a success that raised a trust of 0.5 (five failures) to 0.55,
\* strictly above the old value and below the cap.
C11_Witness ==
    /\ Len(result) = 3
    /\ result[3]
    /\ trust_scores[result[1]] = 55
    /\ packets_dropped[result[1]] = 5

\* C14: the receiver of every outcome is adjacent to the sender in the
\* topology and distinct from it, and no iteration changes the topology (the
\* node set is fixed, the edge set G stays as generated).
C14_ReceiverAdjacent ==
    [][/\ G' = G
       /\ G \subseteq {e \in SUBSET Nodes : Cardinality(e) = 2}
       /\ OutcomeStep =>
              /\ result'[1] \in Nodes
              /\ result'[2] \in Nodes
              /\ result'[1] # result'[2]
              /\ {result'[1], result'[2]} \in G]_vars

\* C14 witness: both ends of the edge have been the receiver of the other.
C14_Witness ==
    /\ Len(result) = 3
    /\ {result[1], result[2]} \in G
    /\ packets_received[result[1]] >= 1
    /\ packets_received[result[2]] >= 1

\* C15: the run loop ends after exactly 50 iterations, each of which called
\* simulate_step once; an iteration without outcome counts like one with an
\* outcome; sum(packets_sent) counts the iterations with an outcome, so that
\* the iterations without one are the rest of the 50 and sum(packets_sent)
\* is at most 50.
C15_RunLength ==
    /\ [](/\ Total(packets_sent) <= step
          /\ step <= 50
          /\ pc = "done" => step = 50)
    /\ [][step' # step =>
             /\ step' = step + 1
             /\ result' = None \/ Len(result') = 3
             /\ result' = None =>
                    Total(packets_sent') = Total(packets_sent)
             /\ Len(result') = 3 =>
                    Total(packets_sent') = Total(packets_sent) + 1]_vars
    /\ <>(pc = "done")

\* C15 witness: a finished run all of whose 50 iterations were no-ops.
C15_Witness ==
    /\ pc = "done"
    /\ step = 50
    /\ result = None
    /\ Total(packets_sent) = 0

\* C16: an iteration whose sender is Honest yields success = true; hence an
\* Honest node always has packets_dropped = 0 and trust = 1.0 and is never
\* in the detected list.
C16_HonestNeverFails ==
    /\ [](\A n \in Nodes :
             roles[n] = "Honest" =>
                 /\ packets_dropped[n] = 0
                 /\ trust_scores[n] = 100
                 /\ n \notin detected)
    /\ [][OutcomeStep /\ roles[result'[1]] = "Honest" => result'[3]]_vars

\* C16 witness: an Honest node that has sent three packets next to a node
\* that is not Honest.
C16_Witness ==
    \E n \in Nodes, o \in Nodes :
        /\ roles[n] = "Honest"
        /\ packets_sent[n] = 3
        /\ roles[o] # "Honest"
        /\ detected # DetectedUnassigned

C18_TrustLowerBound ==
    \A n \in Nodes :
        /\ trust_scores[n] >= 100 - 10 * packets_dropped[n]
        /\ trust_scores[n] < 40 => packets_dropped[n] >= 7
        /\ n \in detected => packets_dropped[n] >= 7

\* C18 witness: a node flagged with exactly seven drops, its trust at 0.3,
\* the bound met with equality.
C18_Witness ==
    \E n \in Nodes :
        /\ packets_dropped[n] = 7
        /\ trust_scores[n] = 30
        /\ n \in detected

\* C19: within the 50-iteration run each node's energy lies between
\* 100.0 - 2.0 * packets_sent[n] and 100.0 - 0.5 * packets_sent[n]; so the
\* energy is below 100.0 exactly when the node has sent a packet,
\* packets_dropped[n] <= packets_sent[n], and the floor at 0.0 never cuts a
\* draw off: the sender's energy goes down by the whole draw.
C19_EnergyBounds ==
    /\ [](\A n \in Nodes :
             /\ 1000 - 20 * packets_sent[n] <= energy[n]
             /\ energy[n] <= 1000 - 5 * packets_sent[n]
             /\ energy[n] < 1000 <=> packets_sent[n] >= 1
             /\ packets_dropped[n] <= packets_sent[n])
    /\ [][OutcomeStep =>
             \E d \in 5 .. 20 :
                 /\ energy[result'[1]] - d >= 0
                 /\ energy'[result'[1]] = energy[result'[1]] - d]_vars

\* C19 witness: a node that sent in all 50 iterations with a draw of 2.0
\* each: its energy is exactly 0.0, the lower bound, and no draw was cut.
C19_Witness ==
    \E n \in Nodes :
        /\ packets_sent[n] = 50
        /\ energy[n] = 0
        /\ packets_dropped[n] >= 1
        /\ pc = "done"

====
